---- MODULE Spec2Model ----
(***************************************************************************)
(* A model of the frame-rendering core of seismon:                         *)
(*   src/src/client/render/mod.rs     GraphicsState, ClientRenderer,       *)
(*                                    systems::recreate_graphics_state,    *)
(*                                    systems::update_renderers,           *)
(*                                    create_texture                       *)
(*   src/src/client/render/ui/mod.rs  UiRenderer::render_pass,             *)
(*                                    screen_space_vertex_transform        *)
(*   src/src/server/commands.rs       cmd_map                              *)
(* GPU objects are modelled by the attributes the code compares or passes  *)
(* on: a pass target by its size and sample count, a pipeline by the       *)
(* sample count it was last built with, the blit pipeline by its format.   *)
(* A frame cycle is modelled by the sequence of encoder operations it      *)
(* records.  Spec is the running client; SpecCalls is the calls of the     *)
(* free functions, whose integers wrap at IntBits bits, and of the map     *)
(* command.                                                                *)
(***************************************************************************)
EXTENDS Integers, Sequences, FiniteSets, TLC

\* Largest width or height of a render resolution (0 is a legal u32 too).
MaxDim == 1
\* Length of the fixed light array, crate::client::entity::MAX_LIGHTS
\* (imported at mod.rs:100).  Its value is set outside these sources; the
\* model is parametric in it.
MAX_LIGHTS == 2
\* Most commands one UI surface generates in one frame.
MaxCmds == 1
\* Width in bits of the model's u32 and i32 (the code's are 32 bits wide).
IntBits == 16
\* Largest display dimension, quad size, pixel coordinate and texture
\* dimension the free functions are called with.
MaxCoord == 1920

Dims == 0..MaxDim
\* Render resolutions.  The code treats width and height alike: the widths
\* range over Dims, the heights over zero and one.
Extents == [width : Dims, height : {0, 1}]
SampleCounts == {1, 2, 4}
\* wgpu::TextureFormat values of a consumer surface.
Formats == {"Rgba8UnormSrgb", "Bgra8UnormSrgb"}
FINAL_ATTACHMENT_FORMAT == "Rgba8UnormSrgb"

TargetNames == {"initial", "deferred", "final"}
\* The pipeline objects of GraphicsState that carry a sample count.
PipelineNames ==
    {"alias", "brush", "sprite", "deferred", "particle", "postprocess", "glyph", "quad"}
Slots == {"diffuse", "normal", "light", "depth"}
Focuses == {"Game", "Console", "Menu"}
CmdKinds == {"quad", "glyph"}

NoGfx == [present |-> FALSE]
NoExtent == [width |-> 0 - 1, height |-> 0 - 1]
NoUi == [kind |-> "None", hud |-> "None", overlay |-> "None"]

Min(a, b) == IF a < b THEN a ELSE b

\* Sequences over S of length at most n.
RECURSIVE SeqsUpTo(_, _)
SeqsUpTo(S, n) ==
    IF n = 0 THEN {<<>>}
    ELSE LET shorter == SeqsUpTo(S, n - 1)
         IN  shorter \cup {Append(s, x) : s \in {t \in shorter : Len(t) = n - 1}, x \in S}

VARIABLES
    phase,              \* "init" before RichterRenderPlugin::finish, "running", "panicked"
    pc,                 \* where the frame node is: "idle", "deferred",
                        \* "deferred_end", "final", "done"
    gfx,                \* the GraphicsState resource, or NoGfx when removed
    render_resolution,  \* the RenderResolution resource
    last,               \* what the last operation did (its arguments and effects)
    renderers,          \* the DeferredRenderer and PostProcessRenderer resources
    call                \* a call of one of the module's free functions

vars == <<phase, pc, gfx, render_resolution, last, renderers, call>>

----------------------------------------------------------------------------
(* Pass targets (target.rs): size(), sample_count().                      *)

InitialPassTarget_new(size, sample_count) ==
    [size |-> size, sample_count |-> sample_count]

DeferredPassTarget_new(size, sample_count) ==
    [size |-> size, sample_count |-> sample_count]

\* The final target takes no sample count: it is single-sampled.
FinalPassTarget_new(size) ==
    [size |-> size, sample_count |-> 1]

\* Pipeline::rebuild(device, compiler, sample_count): the pipeline is
\* recompiled for the given sample count.
Pipeline_rebuild(pipes, name, sample_count) ==
    [pipes EXCEPT ![name] = sample_count]

----------------------------------------------------------------------------
(* GraphicsState                                                           *)

\* Palette::load returns a Palette, not a Result: a palette that cannot be
\* read cannot be reported to the caller.
Palette_load(vfs) == IF vfs.palette THEN "Ok" ELSE "Panic"

\* vfs.open("gfx.wad")? then Wad::load(..).unwrap()
Wad_load(vfs) ==
    IF ~vfs.wad_open THEN "Err"
    ELSE IF ~vfs.wad_parse THEN "Panic"
    ELSE "Ok"

\* The pipelines GraphicsState::new builds.
NewPipelines(sample_count, final_pass_target) ==
    [p \in PipelineNames |->
        IF p = "postprocess" THEN final_pass_target.sample_count ELSE sample_count]

\* GraphicsState::new: Ok(state), Err, or a panic.
GraphicsState_new(size, sample_count, vfs) ==
    IF Palette_load(vfs) = "Panic" THEN [tag |-> "Panic", state |-> NoGfx]
    ELSE IF Wad_load(vfs) # "Ok" THEN [tag |-> Wad_load(vfs), state |-> NoGfx]
    ELSE LET final_pass_target == FinalPassTarget_new(size)
         IN  [tag |-> "Ok",
              state |->
                [present |-> TRUE,
                 initial_pass_target |-> InitialPassTarget_new(size, sample_count),
                 deferred_pass_target |-> DeferredPassTarget_new(size, sample_count),
                 final_pass_target |-> final_pass_target,
                 sample_count |-> sample_count,
                 pipes |-> NewPipelines(sample_count, final_pass_target),
                 blit_format |-> FINAL_ATTACHMENT_FORMAT]]

\* The pipelines recreate_pipelines rebuilds, in the order of the code.
RebuildOrder ==
    <<"alias", "brush", "sprite", "deferred", "postprocess", "glyph", "quad">>

RECURSIVE RebuildFrom(_, _, _)
RebuildFrom(pipes, i, sample_count) ==
    IF i > Len(RebuildOrder) THEN pipes
    ELSE RebuildFrom(Pipeline_rebuild(pipes, RebuildOrder[i], sample_count),
                     i + 1, sample_count)

\* GraphicsState::recreate_pipelines
recreate_pipelines(g, sample_count) ==
    [g EXCEPT !.pipes = RebuildFrom(g.pipes, 1, sample_count)]

Rebuilt == {RebuildOrder[i] : i \in 1..Len(RebuildOrder)}

\* GraphicsState::set_format
set_format(g, format) == [g EXCEPT !.blit_format = format]

\* An update that puts the blit pipeline's format back to the final
\* attachment's whenever it does anything.
GraphicsState_update_ResetFormat(g, size, sample_count) ==
    LET g1 == IF g.sample_count # sample_count
              THEN recreate_pipelines([g EXCEPT !.sample_count = sample_count],
                                      sample_count)
              ELSE g
        changed == \/ g.sample_count # sample_count
                   \/ g.initial_pass_target.size # size
    IN  [g1 EXCEPT
           !.initial_pass_target = InitialPassTarget_new(size, sample_count),
           !.deferred_pass_target = DeferredPassTarget_new(size, sample_count),
           !.final_pass_target = FinalPassTarget_new(size),
           !.blit_format = IF changed THEN FINAL_ATTACHMENT_FORMAT ELSE @]

\* An update that rebuilds the pipelines but does not record the new sample
\* count.
GraphicsState_update_KeepCount(g, size, sample_count) ==
    LET g1 == IF g.sample_count # sample_count
              THEN recreate_pipelines(g, sample_count)
              ELSE g
    IN  [g1 EXCEPT
           !.initial_pass_target = InitialPassTarget_new(size, sample_count),
           !.deferred_pass_target = DeferredPassTarget_new(size, sample_count),
           !.final_pass_target = FinalPassTarget_new(size)]

\* GraphicsState::update: the state after the call.
GraphicsState_update(g, size, sample_count) ==
    LET g1 == IF g.sample_count # sample_count
              THEN recreate_pipelines([g EXCEPT !.sample_count = sample_count],
                                      sample_count)
              ELSE g
        g2 == IF g1.initial_pass_target.size # size
                 \/ g1.initial_pass_target.sample_count # sample_count
              THEN [g1 EXCEPT !.initial_pass_target =
                                  InitialPassTarget_new(size, sample_count)]
              ELSE g1
        g3 == IF g2.deferred_pass_target.size # size
                 \/ g2.deferred_pass_target.sample_count # sample_count
              THEN [g2 EXCEPT !.deferred_pass_target =
                                  DeferredPassTarget_new(size, sample_count)]
              ELSE g2
    IN  IF g3.final_pass_target.size # size
           \/ g3.final_pass_target.sample_count # sample_count
        THEN [g3 EXCEPT !.final_pass_target = FinalPassTarget_new(size)]
        ELSE g3

\* The pass targets a call of GraphicsState::update allocates anew.
UpdateReplaced(g, size, sample_count) ==
    {t \in TargetNames :
        LET cur == CASE t = "initial" -> g.initial_pass_target
                     [] t = "deferred" -> g.deferred_pass_target
                     [] OTHER -> g.final_pass_target
        IN  cur.size # size \/ cur.sample_count # sample_count}

\* The pipelines a call of GraphicsState::update rebuilds.
UpdateRebuilt(g, sample_count) ==
    IF g.sample_count # sample_count THEN Rebuilt ELSE {}

----------------------------------------------------------------------------
(* DeferredRenderer and PostProcessRenderer (deferred.rs, postprocess.rs). *)
(* A renderer holds a bind group made of the attachment views it was built *)
(* with: "bound" when those are views of the targets GraphicsState owns,   *)
(* "stale" when GraphicsState has replaced the target since.               *)

NoRenderers == [deferred_renderer |-> "none", postprocess_renderer |-> "none"]

\* DeferredRenderer::from_world and PostProcessRenderer::from_world build the
\* renderers against the targets of the GraphicsState resource.
Renderers_from_world ==
    [deferred_renderer |-> "bound", postprocess_renderer |-> "bound"]

\* rebuild(state, device, views..) makes a new bind group of the views given.
Renderer_rebuild(r, name) == [r EXCEPT ![name] = "bound"]

\* systems::update_renderers: both renderers are rebuilt, with the views of
\* gfx_state.initial_pass_target() and gfx_state.deferred_pass_target().
update_renderers(r) ==
    Renderer_rebuild(Renderer_rebuild(r, "deferred_renderer"), "postprocess_renderer")

\* The renderers once GraphicsState has replaced the pass targets named: the
\* deferred renderer reads the initial target, the postprocess renderer the
\* deferred target's color view.
AfterReplace(r, replaced) ==
    [deferred_renderer |->
        IF "initial" \in replaced /\ r.deferred_renderer = "bound"
        THEN "stale" ELSE r.deferred_renderer,
     postprocess_renderer |->
        IF "deferred" \in replaced /\ r.postprocess_renderer = "bound"
        THEN "stale" ELSE r.postprocess_renderer]

----------------------------------------------------------------------------
(* UiRenderer::render_pass (ui/mod.rs)                                     *)

Ev(e, a) == [ev |-> e, arg |-> a]

\* One sub-renderer's generate_commands: the commands it appends, in the
\* order it generates them (cmds is a sequence of "quad" / "glyph").
RECURSIVE Pushes(_, _, _)
Pushes(surface, cmds, i) ==
    IF i > Len(cmds) THEN <<>>
    ELSE <<Ev(IF cmds[i] = "quad" THEN "push_quad" ELSE "push_glyph", surface)>>
         \o Pushes(surface, cmds, i + 1)

generate_commands(surface, cmds) ==
    <<Ev("generate_commands", surface)>> \o Pushes(surface, cmds, 1)

\* let (hud_state, overlay) = match ui_state { .. }
HudOf(ui_state) == IF ui_state.kind = "Title" THEN "None" ELSE ui_state.hud
OverlayOf(ui_state) == ui_state.overlay

\* A proportion with the two cases the wrong way round.
ConsoleProportion_Swapped(hud_state) == IF hud_state # "None" THEN 100 ELSE 33

\* The proportion handed to the console renderer, in hundredths.
ConsoleProportion(hud_state) == IF hud_state # "None" THEN 33 ELSE 100

\* A render_pass that records the quad draw before the overlay has
\* generated its commands.
render_pass_DrawEarly(ui_state, hud_cmds, overlay_cmds) ==
    LET hud_state == HudOf(ui_state)
        overlay == OverlayOf(ui_state)
        hud_part == IF hud_state # "None"
                    THEN generate_commands("hud", hud_cmds)
                    ELSE <<>>
        overlay_part ==
            CASE overlay = "Menu" -> generate_commands("menu", overlay_cmds)
              [] overlay = "Console" -> generate_commands("console", overlay_cmds)
              [] OTHER -> <<>>
    IN  hud_part
        \o <<Ev("update_uniforms", "quad"), Ev("record_draw", "quad")>>
        \o overlay_part
        \o <<Ev("record_draw", "glyph")>>

\* The operations render_pass performs, in order.
render_pass(ui_state, hud_cmds, overlay_cmds) ==
    LET hud_state == HudOf(ui_state)
        overlay == OverlayOf(ui_state)
        hud_part == IF hud_state # "None"
                    THEN generate_commands("hud", hud_cmds)
                    ELSE <<>>
        overlay_part ==
            CASE overlay = "Menu" -> generate_commands("menu", overlay_cmds)
              [] overlay = "Console" -> generate_commands("console", overlay_cmds)
              [] OTHER -> <<>>
    IN  hud_part \o overlay_part
        \o <<Ev("update_uniforms", "quad"),
             Ev("record_draw", "quad"),
             Ev("record_draw", "glyph")>>

\* A command list that still holds a command of an earlier frame.
Vec_leftover == <<"hud">>

\* let mut quad_commands = Vec::new(); let mut glyph_commands = Vec::new();
Vec_new == <<>>

\* What one surface appends to a command list: an entry (named by the
\* surface) for each command of the list's kind, in generation order.
Appended(surface, cmds, kind) ==
    LET mine == SelectSeq(cmds, LAMBDA c : c = kind)
    IN  [i \in 1..Len(mine) |-> surface]

\* Command lists to which the overlay appends before the HUD.
render_pass_commands_OverlayFirst(ui_state, hud_cmds, overlay_cmds, quad_commands, glyph_commands) ==
    LET hud_state == HudOf(ui_state)
        overlay == OverlayOf(ui_state)
        surface == IF overlay = "Menu" THEN "menu" ELSE "console"
        hud(kind) == IF hud_state # "None" THEN Appended("hud", hud_cmds, kind)
                     ELSE <<>>
        over(kind) == IF overlay \in {"Menu", "Console"}
                      THEN Appended(surface, overlay_cmds, kind)
                      ELSE <<>>
    IN  [quad_commands |-> quad_commands \o over("quad") \o hud("quad"),
         glyph_commands |-> glyph_commands \o over("glyph") \o hud("glyph")]

\* The command lists render_pass draws: what it was handed, then what the
\* HUD and the overlay appended.
render_pass_commands(ui_state, hud_cmds, overlay_cmds, quad_commands, glyph_commands) ==
    LET hud_state == HudOf(ui_state)
        overlay == OverlayOf(ui_state)
        surface == IF overlay = "Menu" THEN "menu" ELSE "console"
        hud(kind) == IF hud_state # "None" THEN Appended("hud", hud_cmds, kind)
                     ELSE <<>>
        over(kind) == IF overlay \in {"Menu", "Console"}
                      THEN Appended(surface, overlay_cmds, kind)
                      ELSE <<>>
    IN  [quad_commands |-> quad_commands \o hud("quad") \o over("quad"),
         glyph_commands |-> glyph_commands \o hud("glyph") \o over("glyph")]

\* The proportion render_pass passes on (0: the console renderer is not run).
render_pass_proportion(ui_state) ==
    IF OverlayOf(ui_state) = "Console" THEN ConsoleProportion(HudOf(ui_state)) ELSE 0

----------------------------------------------------------------------------
(* ClientRenderer::run (mod.rs)                                            *)

\* The light loop: light_count += 1 and lights[light_id] is written for
\* each light the snapshot yields; lights is an array of MAX_LIGHTS.
RECURSIVE LightLoop(_, _, _, _)
LightLoop(light_id, n, light_count, written) ==
    IF light_id = n
    THEN [panic |-> FALSE, light_count |-> light_count, written |-> written]
    ELSE IF light_id >= MAX_LIGHTS
    THEN [panic |-> TRUE, light_count |-> light_count + 1, written |-> written]
    ELSE LightLoop(light_id + 1, n, light_count + 1, written \cup {light_id})

\* An overlay match whose Menu arm comes first and ignores the focus.
OverlayInGame_MenuFirst(focus, console, menu) ==
    CASE focus = "Game" -> "None"
      [] menu -> "Menu"
      [] focus = "Console" /\ console -> "Console"
      [] OTHER -> "None"

\* overlay: match (focus, console, menu) of UiState::InGame
OverlayInGame(focus, console, menu) ==
    CASE focus = "Game" -> "None"
      [] focus = "Console" /\ console -> "Console"
      [] focus = "Menu" /\ menu -> "Menu"
      [] OTHER -> "None"

\* overlay: match (focus, console, menu) of UiState::Title
OverlayTitle(focus, console, menu) ==
    CASE focus = "Console" /\ console -> "Console"
      [] focus = "Menu" /\ menu -> "Menu"
      [] focus = "Game" -> "unreachable"
      [] OTHER -> "return"

\* let ui_state = match conn { Some(..) => InGame, None => Title }
derive_ui_state(conn, intermission, focus, console, menu) ==
    IF conn # "None"
    THEN [kind |-> "InGame",
          hud |-> IF intermission THEN "Intermission" ELSE "InGame",
          overlay |-> OverlayInGame(focus, console, menu)]
    ELSE [kind |-> "Title", hud |-> "None",
          overlay |-> OverlayTitle(focus, console, menu)]

NoFrame ==
    [log |-> <<>>, lights |-> 0, light_count |-> 0, lights_written |-> {},
     ui_state |-> NoUi, proportion |-> 0,
     quad_commands |-> <<>>, glyph_commands |-> <<>>]

\* The deferred lighting pass.
DeferredPass(lights) ==
    LET loop == LightLoop(0, lights, 0, {})
    IN  [panic |-> loop.panic,
         light_count |-> loop.light_count,
         lights_written |-> loop.written,
         log |-> <<Ev("begin_render_pass", "deferred")>>
                 \o (IF loop.panic THEN <<>>
                     ELSE <<Ev("record_draw", "deferred")>>)]

\* The final render pass: postprocess the world and draw the UI.
FinalPass(in) ==
    LET ui_state == derive_ui_state(in.conn, in.intermission,
                                    in.focus, in.console, in.menu)
        lists == render_pass_commands(ui_state, in.hud_cmds, in.overlay_cmds,
                                      Vec_new, Vec_new)
    IN  IF in.conn # "None"
        THEN [ui_state |-> ui_state,
              proportion |-> render_pass_proportion(ui_state),
              quad_commands |-> lists.quad_commands,
              glyph_commands |-> lists.glyph_commands,
              log |-> <<Ev("begin_render_pass", "final")>>
                      \o (IF in.renderer THEN <<Ev("record_draw", "postprocess")>>
                          ELSE <<>>)
                      \o render_pass(ui_state, in.hud_cmds, in.overlay_cmds)
                      \o <<Ev("end_render_pass", "final")>>]
        ELSE [ui_state |-> NoUi, proportion |-> 0,
              quad_commands |-> Vec_new, glyph_commands |-> Vec_new,
              log |-> <<Ev("begin_render_pass", "final"),
                        Ev("end_render_pass", "final")>>]

BlitPass ==
    <<Ev("begin_render_pass", "blit"), Ev("record_draw", "blit"),
      Ev("end_render_pass", "blit")>>

\* A resource acquisition that goes on without its input slots.
Acquire_IgnoreSlots(in) ==
    IF ~in.has_resolution THEN "return"
    ELSE IF ~in.has_view THEN "return"
    ELSE "go"

\* How ClientRenderer::run gets its resources: "return" (no resolution, no
\* view target), "err" (a missing input slot) or "go".
Acquire(in) ==
    IF ~in.has_resolution THEN "return"
    ELSE IF ~in.has_view THEN "return"
    ELSE IF in.slots # Slots THEN "err"
    ELSE "go"

----------------------------------------------------------------------------
(* Integer and float arithmetic of the free functions.                     *)

RECURSIVE Pow2(_)
Pow2(n) == IF n = 0 THEN 1 ELSE 2 * Pow2(n - 1)

Abs(n) == IF n < 0 THEN 0 - n ELSE n
Max(a, b) == IF a < b THEN b ELSE a

U32_MAX == Pow2(IntBits) - 1
I32_MAX == Pow2(IntBits - 1) - 1
I32_MIN == 0 - Pow2(IntBits - 1)

\* `as i32` of a u32, and an integer taken into the i32 range: two's
\* complement.
as_i32(n) ==
    LET m == n % Pow2(IntBits)
    IN  IF m > I32_MAX THEN m - Pow2(IntBits) ELSE m

\* An i32 or u32 operation whose exact result is n: the value kept, and
\* whether the operation overflowed (a debug build panics there, a release
\* build goes on with the wrapped value).
op_i32(n) == [value |-> as_i32(n), overflow |-> n < I32_MIN \/ n > I32_MAX]
op_u32(n) == [value |-> n % Pow2(IntBits), overflow |-> n < 0 \/ n > U32_MAX]

\* `as f32` of an integer: exact up to 2^24, beyond that the nearest value
\* with a 24-bit significand (ties to even).
RECURSIVE Ulp(_, _)
Ulp(n, u) == IF Abs(n) < u * Pow2(24) THEN u ELSE Ulp(n, 2 * u)

as_f32(n) ==
    LET u == Ulp(n, 1)
        down == n - (n % u)
        rest == n % u
    IN  IF rest = 0 THEN n
        ELSE IF 2 * rest < u THEN down
        ELSE IF 2 * rest > u THEN down + u
        ELSE IF (down \div u) % 2 = 0 THEN down ELSE down + u

\* An f32 quotient a / b, kept as the pair of its operands.
f32_div(a, b) == [num |-> a, den |-> b]

----------------------------------------------------------------------------
(* screen_space_vertex_translate, _scale, _transform (ui/mod.rs)           *)

\* A translate that subtracts in u32, without the `as i32`.
screen_space_vertex_translate_Unsigned(display_w, display_h, pos_x, pos_y) ==
    LET x2 == op_i32(pos_x * 2)
        y2 == op_i32(pos_y * 2)
        dx == op_u32(x2.value - display_w)
        dy == op_u32(y2.value - display_h)
    IN  [x |-> f32_div(as_f32(dx.value), as_f32(display_w)),
         y |-> f32_div(as_f32(dy.value), as_f32(display_h)),
         overflow |-> x2.overflow \/ y2.overflow \/ dx.overflow \/ dy.overflow]

\* (pos_x * 2 - display_w as i32) as f32 / display_w as f32, and so for y.
screen_space_vertex_translate(display_w, display_h, pos_x, pos_y) ==
    LET x2 == op_i32(pos_x * 2)
        y2 == op_i32(pos_y * 2)
        dx == op_i32(x2.value - as_i32(display_w))
        dy == op_i32(y2.value - as_i32(display_h))
    IN  [x |-> f32_div(as_f32(dx.value), as_f32(display_w)),
         y |-> f32_div(as_f32(dy.value), as_f32(display_h)),
         overflow |-> x2.overflow \/ y2.overflow \/ dx.overflow \/ dy.overflow]

\* (quad_w * 2) as f32 / display_w as f32, and so for y.
screen_space_vertex_scale(display_w, display_h, quad_w, quad_h) ==
    LET w2 == op_u32(quad_w * 2)
        h2 == op_u32(quad_h * 2)
    IN  [x |-> f32_div(as_f32(w2.value), as_f32(display_w)),
         y |-> f32_div(as_f32(h2.value), as_f32(display_h)),
         overflow |-> w2.overflow \/ h2.overflow]

\* Matrix4::from_translation(ndc) * Matrix4::from_nonuniform_scale(scale):
\* the matrix is kept as its translation and its scale.
screen_space_vertex_transform(display_w, display_h, quad_w, quad_h, pos_x, pos_y) ==
    LET ndc == screen_space_vertex_translate(display_w, display_h, pos_x, pos_y)
        scale == screen_space_vertex_scale(display_w, display_h, quad_w, quad_h)
    IN  [translation |-> [x |-> ndc.x, y |-> ndc.y],
         scale |-> [x |-> scale.x, y |-> scale.y],
         overflow |-> ndc.overflow \/ scale.overflow]

----------------------------------------------------------------------------
(* create_texture, TextureData (mod.rs)                                    *)

TextureDataKinds == {"Diffuse", "Fullbright", "Lightmap"}

\* TextureData::format
TextureData_format(data) ==
    CASE data = "Diffuse" -> "Rgba8UnormSrgb"
      [] data = "Fullbright" -> "R8Unorm"
      [] data = "Lightmap" -> "R8Unorm"

\* TextureData::stride: bytes per pixel by format; 0 stands for todo!().
TextureData_stride(data) ==
    LET format == TextureData_format(data)
    IN  CASE format \in {"Rg8Unorm", "Rg8Snorm", "Rg8Uint", "Rg8Sint"} -> 2
          [] format \in {"R8Unorm", "R8Snorm", "R8Uint", "R8Sint"} -> 1
          [] format \in {"Bgra8Unorm", "Bgra8UnormSrgb", "Rgba8Unorm", "Rgba8UnormSrgb"} -> 4
          [] format \in {"R16Uint", "R16Sint", "R16Unorm", "R16Snorm", "R16Float"} -> 2
          [] format \in {"Rg16Uint", "Rg16Sint", "Rg16Unorm", "Rg16Snorm", "Rg16Float"} -> 4
          [] format \in {"Rgba16Uint", "Rgba16Sint", "Rgba16Unorm", "Rgba16Snorm",
                         "Rgba16Float"} -> 8
          [] OTHER -> 0

\* A create_texture that clamps the copy region as it clamps the texture.
create_texture_ClampCopy(width, height, data) ==
    LET row == op_u32(Max(width, 1) * TextureData_stride(data))
    IN  [texture |-> [width |-> Max(width, 1), height |-> Max(height, 1),
                      format |-> TextureData_format(data)],
         bytes_per_row |-> row.value,
         copy |-> [width |-> Max(width, 1), height |-> Max(height, 1)],
         overflow |-> row.overflow]

\* create_texture: the texture allocated and the write_texture issued.
create_texture(width, height, data) ==
    LET row == op_u32(width * TextureData_stride(data))
    IN  [texture |-> [width |-> Max(width, 1), height |-> Max(height, 1),
                      format |-> TextureData_format(data)],
         bytes_per_row |-> row.value,
         copy |-> [width |-> width, height |-> height],
         overflow |-> row.overflow]

----------------------------------------------------------------------------
(* cmd_map (server/commands.rs)                                            *)

\* A map name: its file stem and its extension ("" for none).
MapStems == {"e1m1", "start"}
MapExtensions == {"", "bsp", "ent"}
MapNames == [stem : MapStems, ext : MapExtensions]

\* if map_name.extension().is_none() { map_name.set_extension("bsp") }
\* let mut path = PathBuf::from("maps"); path.push(map_name);
MapPath(map_name) ==
    <<"maps", map_name.stem, IF map_name.ext = "" THEN "bsp" ELSE map_name.ext>>

ProgsPath == <<"progs.dat">>

\* LevelState::new(progs, models, entmap, ..) and Session::new(8, .., progs,
\* models, entmap): the level made of the files loaded, the session made
\* around it.
LevelState_new(path) == [progs |-> ProgsPath, bsp |-> path]
Session_new(max_clients, level) ==
    [state |-> "New", max_clients |-> max_clients, level |-> level]

\* A command that takes the input focus before it has loaded anything.
cmd_map_FocusFirst(map_name, world, vfs) ==
    LET path == MapPath(map_name)
        early == [world EXCEPT !.focus = "Game"]
    IN  IF path \notin vfs.files THEN [result |-> "Err", world |-> early]
        ELSE IF ~vfs.bsp_loads THEN [result |-> "Err", world |-> early]
        ELSE IF ProgsPath \notin vfs.files THEN [result |-> "Err", world |-> early]
        ELSE IF ~vfs.progs_loads THEN [result |-> "Err", world |-> early]
        ELSE [result |-> "Ok",
              world |->
                [session |->
                    IF world.session.present
                    THEN [world.session EXCEPT !.state = "Loading",
                                               !.level = LevelState_new(path)]
                    ELSE [present |-> TRUE] @@ Session_new(8, LevelState_new(path)),
                 connection |-> "Server",
                 connection_state |-> "SignOn(Prespawn)",
                 focus |-> "Game"]]

\* cmd_map: what it returns and the world once its commands are applied
\* (the insert_resource commands are deferred to the next sync point).
cmd_map(map_name, world, vfs) ==
    LET path == MapPath(map_name)
    IN  IF path \notin vfs.files THEN [result |-> "Err", world |-> world]
        ELSE IF ~vfs.bsp_loads THEN [result |-> "Err", world |-> world]
        ELSE IF ProgsPath \notin vfs.files THEN [result |-> "Err", world |-> world]
        ELSE IF ~vfs.progs_loads THEN [result |-> "Err", world |-> world]
        ELSE [result |-> "Ok",
              world |->
                [session |->
                    IF world.session.present
                    THEN [world.session EXCEPT !.state = "Loading",
                                               !.level = LevelState_new(path)]
                    ELSE [present |-> TRUE] @@ Session_new(8, LevelState_new(path)),
                 connection |-> "Server",
                 connection_state |-> "SignOn(Prespawn)",
                 focus |-> "Game"]]

----------------------------------------------------------------------------
(* The record of the last operation.                                       *)

NoIn ==
    [has_resolution |-> TRUE, has_view |-> TRUE, slots |-> Slots,
     conn |-> "None", renderer |-> FALSE, intermission |-> FALSE,
     focus |-> "Game", console |-> FALSE, menu |-> FALSE,
     hud_cmds |-> <<>>, overlay_cmds |-> <<>>]

\* What the asset files allow: all good, no palette, no gfx.wad, a gfx.wad
\* that does not parse.
GoodVfs == [palette |-> TRUE, wad_open |-> TRUE, wad_parse |-> TRUE]
VfsStates ==
    {GoodVfs, [GoodVfs EXCEPT !.palette = FALSE], [GoodVfs EXCEPT !.wad_open = FALSE],
     [GoodVfs EXCEPT !.wad_parse = FALSE]}

NoCall == [fn |-> "none"]

Blank ==
    [op |-> "none", outcome |-> "ok",
     size |-> NoExtent, sample_count |-> 0, format |-> "none",
     again |-> FALSE, replaced |-> {}, rebuilt |-> {}, format_written |-> FALSE,
     vfs |-> GoodVfs, new_result |-> "none",
     in |-> NoIn, frame |-> NoFrame]

\* The inputs of a frame cycle.  Inputs a cycle that ends early never uses
\* are left at their defaults.
CmdSeqs == SeqsUpTo(CmdKinds, MaxCmds)
SlotChoices == {Slots} \cup {Slots \ {s} : s \in Slots}

AbortInputs ==
    {in \in {[NoIn EXCEPT !.has_resolution = r, !.has_view = v, !.slots = s] :
                r \in BOOLEAN, v \in BOOLEAN, s \in SlotChoices} :
        ~in.has_resolution \/ ~in.has_view \/ in.slots # Slots}

GoInputs ==
    {[NoIn EXCEPT !.conn = k, !.renderer = r, !.focus = f, !.console = c, !.menu = m] :
        k \in {"None", "Some"}, r \in BOOLEAN, f \in Focuses,
        c \in BOOLEAN, m \in BOOLEAN}

----------------------------------------------------------------------------
(* Operations                                                              *)

Init ==
    /\ phase = "init"
    /\ pc = "idle"
    /\ gfx = NoGfx
    /\ render_resolution \in Extents
    /\ last = Blank
    /\ renderers = NoRenderers
    /\ call = NoCall

\* let mut sample_count = cvars.get_value("r_msaa_samples") ..; sample_count = 1;
SampleCountFromCvars(r_msaa_samples) ==
    LET chosen == IF r_msaa_samples \in {2, 4} THEN r_msaa_samples ELSE 2
    IN  1

\* RichterRenderPlugin::finish: init_resource::<GraphicsState>(), that is
\* GraphicsState::from_world (Err(e) => { warn!(..); todo!() }), then
\* init_resource of the DeferredRenderer and the PostProcessRenderer.
Startup ==
    /\ phase = "init"
    /\ \E vfs \in VfsStates, r_msaa_samples \in SampleCounts :
         LET r == GraphicsState_new(render_resolution,
                                    SampleCountFromCvars(r_msaa_samples), vfs)
         IN  /\ gfx' = r.state
             /\ phase' = IF r.tag = "Ok" THEN "running" ELSE "panicked"
             /\ renderers' = IF r.tag = "Ok" THEN Renderers_from_world ELSE renderers
             /\ last' = [Blank EXCEPT !.op = "from_world",
                                      !.outcome = IF r.tag = "Ok" THEN "ok" ELSE "panic",
                                      !.size = render_resolution,
                                      !.sample_count = SampleCountFromCvars(r_msaa_samples),
                                      !.vfs = vfs, !.new_result = r.tag]
    /\ UNCHANGED <<pc, render_resolution, call>>

\* The ExtractSchedule systems run when RenderResolution changed:
\* (recreate_graphics_state, update_renderers).chain().  Both take the
\* GraphicsState as a system parameter (ResMut, Res), which needs the
\* resource to exist.  commands.remove_resource is deferred: it is applied at
\* the schedule's next sync point, which lies between the two systems (sync)
\* or after them, as the scheduler places it.
RecreateGraphicsState ==
    /\ phase = "running"
    /\ pc = "idle"
    /\ \E size \in Extents, vfs \in VfsStates, r_msaa_samples \in SampleCounts,
          sync \in BOOLEAN :
         /\ render_resolution' = size
         /\ IF ~gfx.present
            THEN /\ ~sync
                 /\ phase' = "panicked"
                 /\ gfx' = gfx
                 /\ renderers' = renderers
                 /\ last' = [Blank EXCEPT !.op = "recreate_graphics_state",
                                          !.outcome = "panic", !.size = size]
            ELSE LET r == GraphicsState_new(size, SampleCountFromCvars(r_msaa_samples), vfs)
                     rec == [Blank EXCEPT
                               !.op = "recreate_graphics_state",
                               !.size = size,
                               !.sample_count = SampleCountFromCvars(r_msaa_samples),
                               !.vfs = vfs, !.new_result = r.tag]
                 IN  CASE r.tag = "Ok" ->
                            /\ ~sync
                            /\ phase' = "running"
                            /\ gfx' = r.state
                            /\ renderers' =
                                   update_renderers(AfterReplace(renderers, TargetNames))
                            /\ last' = [rec EXCEPT !.replaced = TargetNames,
                                                   !.rebuilt = PipelineNames]
                       [] r.tag = "Panic" ->
                            /\ ~sync
                            /\ phase' = "panicked"
                            /\ gfx' = gfx
                            /\ renderers' = renderers
                            /\ last' = [rec EXCEPT !.outcome = "panic"]
                       [] r.tag = "Err" /\ sync ->
                            /\ phase' = "panicked"
                            /\ gfx' = NoGfx
                            /\ renderers' = renderers
                            /\ last' = [rec EXCEPT !.op = "update_renderers",
                                                   !.outcome = "panic"]
                       [] r.tag = "Err" /\ ~sync ->
                            /\ phase' = "running"
                            /\ gfx' = NoGfx
                            /\ renderers' = update_renderers(renderers)
                            /\ last' = rec
    /\ UNCHANGED <<pc, call>>

\* GraphicsState::update(device, size, sample_count)
Update ==
    /\ phase = "running"
    /\ pc = "idle"
    /\ gfx.present
    /\ \E size \in Extents, sample_count \in SampleCounts :
         /\ gfx' = GraphicsState_update(gfx, size, sample_count)
         /\ last' = [Blank EXCEPT !.op = "update", !.size = size,
                                  !.sample_count = sample_count,
                                  !.again = /\ last.op = "update"
                                            /\ last.size = size
                                            /\ last.sample_count = sample_count,
                                  !.replaced = UpdateReplaced(gfx, size, sample_count),
                                  !.rebuilt = UpdateRebuilt(gfx, sample_count)]
         /\ renderers' = AfterReplace(renderers, UpdateReplaced(gfx, size, sample_count))
    /\ UNCHANGED <<phase, pc, render_resolution, call>>

\* The sample count ClientRenderer::update rebuilds the pipelines with.
ValidateSampleCount(g) == 1

\* A Validate step that rebuilds the pipelines and leaves the stored format.
ClientRenderer_update_KeepFormat(g, has_view, format) ==
    IF ~has_view THEN g
    ELSE IF ~g.present THEN g
    ELSE IF format # g.blit_format
    THEN recreate_pipelines(g, ValidateSampleCount(g))
    ELSE g

\* ClientRenderer::update (the frame node's Validate step): the state after.
ClientRenderer_update(g, has_view, format) ==
    IF ~has_view THEN g
    ELSE IF ~g.present THEN g
    ELSE IF format # g.blit_format
    THEN recreate_pipelines(set_format(g, format), ValidateSampleCount(g))
    ELSE g

Validate ==
    /\ phase = "running"
    /\ pc = "idle"
    /\ \E has_view \in BOOLEAN, format \in Formats :
         /\ gfx' = ClientRenderer_update(gfx, has_view, format)
         /\ last' = [Blank EXCEPT
                       !.op = "validate", !.format = format,
                       !.outcome = IF has_view /\ gfx.present THEN "ok" ELSE "return",
                       !.format_written =
                           has_view /\ gfx.present /\ format # gfx.blit_format,
                       !.rebuilt =
                           IF has_view /\ gfx.present /\ format # gfx.blit_format
                           THEN Rebuilt ELSE {}]
    /\ UNCHANGED <<phase, pc, render_resolution, renderers, call>>

\* ClientRenderer::run, from its entry to BUMP.reset(): the resources are
\* fetched (world.resource::<GraphicsState>() needs the resource to exist),
\* the cycle ends early when a required one is missing, and a
\* DeferredRenderer is made of the four input textures ("TODO: Cache").
RunBegin ==
    /\ phase = "running"
    /\ pc = "idle"
    /\ \E in \in AbortInputs \cup GoInputs :
         IF ~gfx.present
         THEN /\ phase' = "panicked"
              /\ pc' = pc
              /\ last' = [Blank EXCEPT !.op = "run", !.outcome = "panic"]
         ELSE /\ phase' = phase
              /\ pc' = IF Acquire(in) = "go" THEN "deferred" ELSE "done"
              /\ last' = [Blank EXCEPT
                            !.op = "run", !.in = in, !.size = render_resolution,
                            !.outcome = IF Acquire(in) = "go" THEN "running"
                                        ELSE Acquire(in),
                            !.frame = [NoFrame EXCEPT
                                         !.log = IF Acquire(in) = "go"
                                                 THEN <<Ev("new", "deferred_renderer"),
                                                        Ev("bump_reset", "-")>>
                                                 ELSE <<>>]]
    /\ UNCHANGED <<gfx, render_resolution, renderers, call>>

\* ClientRenderer::run, the deferred lighting pass: only if (conn, renderer)
\* are both Some.  lights is the number of lights cl_state.iter_lights()
\* yields.
RunDeferredPass ==
    /\ phase = "running"
    /\ pc = "deferred"
    /\ \E lights \in 0..(MAX_LIGHTS + 1) :
         /\ (~(last.in.conn # "None" /\ last.in.renderer) => lights = 0)
         /\ LET d == DeferredPass(lights)
            IN  IF last.in.conn # "None" /\ last.in.renderer
                THEN /\ phase' = IF d.panic THEN "panicked" ELSE "running"
                     /\ pc' = IF d.panic THEN pc ELSE "deferred_end"
                     /\ last' = [last EXCEPT
                                   !.outcome = IF d.panic THEN "panic" ELSE "running",
                                   !.frame.log = @ \o d.log,
                                   !.frame.lights = lights,
                                   !.frame.light_count = d.light_count,
                                   !.frame.lights_written = d.lights_written]
                ELSE /\ phase' = phase
                     /\ pc' = "final"
                     /\ last' = last
    /\ UNCHANGED <<gfx, render_resolution, renderers, call>>

\* ClientRenderer::run, the end of the deferred pass's block: deferred_pass
\* is dropped, which ends the pass, and with it the block's locals (the
\* light array, light_count, the uniforms).
RunDeferredEnd ==
    /\ phase = "running"
    /\ pc = "deferred_end"
    /\ pc' = "final"
    /\ last' = [last EXCEPT
                  !.frame.log = @ \o <<Ev("end_render_pass", "deferred")>>,
                  !.frame.lights = 0,
                  !.frame.light_count = 0,
                  !.frame.lights_written = {}]
    /\ UNCHANGED <<phase, gfx, render_resolution, renderers, call>>

\* ClientRenderer::run, the final pass and the blit to the swap chain.
RunFinalPass ==
    /\ phase = "running"
    /\ pc = "final"
    /\ \E intermission \in BOOLEAN, hud_cmds \in CmdSeqs, overlay_cmds \in CmdSeqs :
         /\ (last.in.conn = "None" => ~intermission /\ hud_cmds = <<>>)
         /\ ((last.in.conn = "None"
                 \/ last.in.focus = "Game"
                 \/ (last.in.focus = "Console" /\ ~last.in.console)
                 \/ (last.in.focus = "Menu" /\ ~last.in.menu))
               => overlay_cmds = <<>>)
         /\ LET in == [last.in EXCEPT !.intermission = intermission,
                                      !.hud_cmds = hud_cmds,
                                      !.overlay_cmds = overlay_cmds]
                f == FinalPass(in)
            IN  last' = [last EXCEPT
                           !.in = in, !.outcome = "ok",
                           !.frame.log = @ \o f.log \o BlitPass,
                           !.frame.ui_state = f.ui_state,
                           !.frame.proportion = f.proportion,
                           !.frame.quad_commands = f.quad_commands,
                           !.frame.glyph_commands = f.glyph_commands]
    /\ pc' = "done"
    /\ UNCHANGED <<phase, gfx, render_resolution, renderers, call>>

\* The values of UiState.
UiStates ==
    [kind : {"Title"}, hud : {"None"}, overlay : {"Console", "Menu"}]
    \cup [kind : {"InGame"}, hud : {"Intermission", "InGame"},
          overlay : {"None", "Console", "Menu"}]

\* A direct call of the public UiRenderer::render_pass with a Title state,
\* which the frame node never derives.
RenderPass ==
    /\ phase = "running"
    /\ pc = "idle"
    /\ gfx.present
    /\ \E ui_state \in {u \in UiStates : u.kind = "Title"}, overlay_cmds \in CmdSeqs :
         LET lists == render_pass_commands(ui_state, <<>>, overlay_cmds, Vec_new, Vec_new)
         IN
         last' = [Blank EXCEPT
                    !.op = "render_pass", !.size = render_resolution,
                    !.in = [NoIn EXCEPT !.overlay_cmds = overlay_cmds],
                    !.frame = [NoFrame EXCEPT
                                 !.log = render_pass(ui_state, <<>>, overlay_cmds),
                                 !.ui_state = ui_state,
                                 !.proportion = render_pass_proportion(ui_state),
                                 !.quad_commands = lists.quad_commands,
                                 !.glyph_commands = lists.glyph_commands]]
    /\ pc' = "done"
    /\ UNCHANGED <<phase, gfx, render_resolution, renderers, call>>

\* The frame node returns (Ok(()), or early): what it recorded is handed on
\* and the record of the cycle is dropped.
FrameEnd ==
    /\ phase = "running"
    /\ pc = "done"
    /\ pc' = "idle"
    /\ last' = Blank
    /\ UNCHANGED <<phase, gfx, render_resolution, renderers, call>>

Next ==
    \/ Startup
    \/ RecreateGraphicsState
    \/ Update
    \/ Validate
    \/ RunBegin
    \/ RunDeferredPass
    \/ RunDeferredEnd
    \/ RunFinalPass
    \/ RenderPass
    \/ FrameEnd

Spec == Init /\ [][Next]_vars

----------------------------------------------------------------------------
(* Calls of the free functions: the arguments are drawn at the start, the  *)
(* call is made once.                                                      *)

DisplayDims == {0, 1, 2, 1080, 1920, MaxCoord}
QuadDims == {0, 1, 50, 100, MaxCoord}
Origins == {0 - MaxCoord, 0 - 1, 0, 1, 960, MaxCoord}
TextureDims == {0, 1, 2, MaxCoord}

NoResult == [overflow |-> FALSE]

NewCall(fn, args) ==
    [fn |-> fn, args |-> args, done |-> FALSE, panic |-> FALSE, result |-> NoResult]

TranslateCalls ==
    {NewCall("translate", [display_w |-> w, display_h |-> h, pos_x |-> x, pos_y |-> y]) :
        w \in DisplayDims, h \in DisplayDims, x \in Origins, y \in Origins}

ScaleCalls ==
    {NewCall("scale", [display_w |-> w, display_h |-> h, quad_w |-> qw, quad_h |-> qh]) :
        w \in DisplayDims, h \in DisplayDims, qw \in QuadDims, qh \in QuadDims}

TransformCalls ==
    {NewCall("transform", [display_w |-> w, display_h |-> h, quad_w |-> qw, quad_h |-> qh,
                           pos_x |-> x, pos_y |-> y]) :
        w \in DisplayDims \ {0}, h \in {1, 1080}, qw \in QuadDims, qh \in {0, 50},
        x \in Origins, y \in {0 - 1, 0}}

TextureCalls ==
    {NewCall("create_texture", [width |-> w, height |-> h, data |-> d]) :
        w \in TextureDims, h \in TextureDims, d \in TextureDataKinds}

\* The worlds the map command is given: with or without a session, a
\* connection and a connection state.
OldLevel == [progs |-> ProgsPath, bsp |-> <<"maps", "old", "bsp">>]
Sessions ==
    {[present |-> FALSE],
     [present |-> TRUE, state |-> "Active", max_clients |-> 8, level |-> OldLevel]}
MapWorlds ==
    [session : Sessions, connection : {"None", "Client"},
     connection_state : {"None", "Connected"}, focus : Focuses]

\* The files the command finds.
MapFiles == {<<"maps", "e1m1", "bsp">>, <<"maps", "start", "bsp">>, ProgsPath}
MapVfsStates == [files : SUBSET MapFiles, bsp_loads : BOOLEAN, progs_loads : BOOLEAN]

MapCalls ==
    {NewCall("cmd_map", [map_name |-> n, world |-> w, vfs |-> v]) :
        n \in MapNames, w \in MapWorlds, v \in MapVfsStates}

InitCalls ==
    /\ phase = "init"
    /\ pc = "idle"
    /\ gfx = NoGfx
    /\ render_resolution = [width |-> 1, height |-> 1]
    /\ last = Blank
    /\ renderers = NoRenderers
    /\ call \in TranslateCalls \cup ScaleCalls \cup TransformCalls \cup TextureCalls
                 \cup MapCalls

\* The call returns r, or panics where an integer operation overflowed and
\* the build checks for it.
Returned(r) ==
    \E checked \in BOOLEAN :
        /\ checked => r.overflow
        /\ call' = [call EXCEPT !.done = TRUE, !.panic = checked, !.result = r]

CallTranslate ==
    /\ call.fn = "translate" /\ ~call.done
    /\ Returned(screen_space_vertex_translate(call.args.display_w, call.args.display_h,
                                              call.args.pos_x, call.args.pos_y))
    /\ UNCHANGED <<phase, pc, gfx, render_resolution, last, renderers>>

CallScale ==
    /\ call.fn = "scale" /\ ~call.done
    /\ Returned(screen_space_vertex_scale(call.args.display_w, call.args.display_h,
                                          call.args.quad_w, call.args.quad_h))
    /\ UNCHANGED <<phase, pc, gfx, render_resolution, last, renderers>>

CallTransform ==
    /\ call.fn = "transform" /\ ~call.done
    /\ Returned(screen_space_vertex_transform(call.args.display_w, call.args.display_h,
                                              call.args.quad_w, call.args.quad_h,
                                              call.args.pos_x, call.args.pos_y))
    /\ UNCHANGED <<phase, pc, gfx, render_resolution, last, renderers>>

CallCreateTexture ==
    /\ call.fn = "create_texture" /\ ~call.done
    /\ Returned(create_texture(call.args.width, call.args.height, call.args.data))
    /\ UNCHANGED <<phase, pc, gfx, render_resolution, last, renderers>>

CallCmdMap ==
    /\ call.fn = "cmd_map" /\ ~call.done
    /\ call' = [call EXCEPT
                  !.done = TRUE,
                  !.result = cmd_map(call.args.map_name, call.args.world, call.args.vfs)]
    /\ UNCHANGED <<phase, pc, gfx, render_resolution, last, renderers>>

NextCalls ==
    \/ CallTranslate
    \/ CallScale
    \/ CallTransform
    \/ CallCreateTexture
    \/ CallCmdMap

SpecCalls == InitCalls /\ [][NextCalls]_vars

----------------------------------------------------------------------------
(* Properties                                                              *)

Count(log, e) == Cardinality({i \in DOMAIN log : log[i] = e})
Idx(log, e) == CHOOSE i \in DOMAIN log : log[i] = e
Begun(log, pass) == Count(log, Ev("begin_render_pass", pass))
IsDraw(e) == e.ev = "record_draw"
IsBegin(e) == e.ev = "begin_render_pass"
IsGen(e) == e.ev \in {"generate_commands", "push_quad", "push_glyph"}

\* C1: GraphicsState::update is idempotent: a second update(extent, S) with
\* the arguments of the update just before it replaces none of the three
\* pass targets and rebuilds no pipeline.
C1_UpdateIdempotent ==
    (last.op = "update" /\ last.again) => (last.replaced = {} /\ last.rebuilt = {})

\* C2: after update has rebuilt the pipelines at sample count S, every
\* pipeline of GraphicsState (alias, brush, sprite, particle, deferred,
\* post-process, UI-quad, UI-glyph) has sample count S.
C2_AllPipelinesRebuilt ==
    (last.op = "update" /\ last.rebuilt # {})
        => \A p \in PipelineNames : gfx.pipes[p] = last.sample_count

\* C3: whenever update or the Validate step has rebuilt pipelines, every
\* rebuilt pipeline's sample count equals GraphicsState's sample_count.
C3_RebuiltAtCurrentSampleCount ==
    (last.op \in {"update", "validate"} /\ last.rebuilt # {})
        => \A p \in last.rebuilt : gfx.pipes[p] = gfx.sample_count

\* C4: for every number n of lights of the snapshot, the deferred pass does
\* not end the cycle with a panic, writes exactly min(n, MAX_LIGHTS) lights
\* and records light_count = min(n, MAX_LIGHTS) <= MAX_LIGHTS.
C4_LightsCapped ==
    (/\ last.op = "run" /\ Begun(last.frame.log, "deferred") = 1
     /\ (pc = "deferred_end" \/ phase = "panicked"))
        => /\ last.outcome # "panic"
           /\ Cardinality(last.frame.lights_written) = Min(last.frame.lights, MAX_LIGHTS)
           /\ last.frame.light_count = Min(last.frame.lights, MAX_LIGHTS)
           /\ last.frame.light_count <= MAX_LIGHTS

\* C5: a finished frame cycle without a connection snapshot, with focus on
\* a console (or menu) that exists, has handed the UI renderer a Title state
\* with the Console (or Menu) overlay and recorded its two draws.
C5_TitleUiWithoutConnection ==
    (/\ last.op = "run" /\ pc = "done" /\ last.in.conn = "None"
     /\ \/ last.in.focus = "Console" /\ last.in.console
        \/ last.in.focus = "Menu" /\ last.in.menu)
        => /\ last.frame.ui_state.kind = "Title"
           /\ last.frame.ui_state.overlay = last.in.focus
           /\ Count(last.frame.log, Ev("record_draw", "quad")) = 1
           /\ Count(last.frame.log, Ev("record_draw", "glyph")) = 1

\* C6: in a finished frame cycle with a connection snapshot the UI state is
\* In-Game, and its overlay is Console exactly when focus = Console and a
\* console exists, Menu exactly when focus = Menu and a menu exists, and
\* absent otherwise; the matching overlay renderer, and no other, has run.
C6_OverlaySelection ==
    (last.op = "run" /\ pc = "done" /\ last.in.conn # "None")
        => LET o == last.frame.ui_state.overlay
               log == last.frame.log
           IN  /\ last.frame.ui_state.kind = "InGame"
               /\ o \in {"None", "Console", "Menu"}
               /\ (o = "Console" <=> (last.in.focus = "Console" /\ last.in.console))
               /\ (o = "Menu" <=> (last.in.focus = "Menu" /\ last.in.menu))
               /\ (last.in.focus = "Game" => o = "None")
               /\ Count(log, Ev("generate_commands", "console"))
                    = (IF o = "Console" THEN 1 ELSE 0)
               /\ Count(log, Ev("generate_commands", "menu"))
                    = (IF o = "Menu" THEN 1 ELSE 0)

C6_Witness ==
    /\ last.op = "run" /\ pc = "done" /\ last.in.conn # "None"
    /\ last.in.focus = "Console" /\ last.in.console /\ last.in.menu
    /\ last.frame.ui_state.overlay = "Console"

\* C7: when the palette or gfx.wad is missing or unreadable, constructing
\* the GraphicsState (at startup or on a resolution change) yields an error
\* value and the process does not panic.
C7_ConstructionNeverPanics ==
    (last.op \in {"from_world", "recreate_graphics_state"} /\ last.vfs # GoodVfs)
        => (last.new_result = "Err" /\ phase # "panicked")

\* C8: a frame cycle that got past resource acquisition and has ended began
\* the deferred pass at most once, the final pass once and the blit pass
\* once, in that order, each pass ended before the next was begun; the final
\* and blit passes were begun with or without a world.
PassesInOrder(log) ==
    /\ Begun(log, "deferred") <= 1
    /\ Begun(log, "final") = 1
    /\ Begun(log, "blit") = 1
    /\ \A pass \in {"deferred", "final", "blit"} :
          Begun(log, pass) = Count(log, Ev("end_render_pass", pass))
    /\ \A i, j \in DOMAIN log :
          (i < j /\ IsBegin(log[i]) /\ IsBegin(log[j]))
              => /\ <<log[i].arg, log[j].arg>> \in
                       {<<"deferred", "final">>, <<"deferred", "blit">>, <<"final", "blit">>}
                 /\ \E k \in DOMAIN log :
                       i < k /\ k < j /\ log[k] = Ev("end_render_pass", log[i].arg)

C8_PassOrder ==
    (last.op = "run" /\ last.outcome \in {"ok", "panic"} /\ last.frame.log # <<>>)
        => PassesInOrder(last.frame.log)

\* C9: a frame cycle that lacks the render resolution, the view target or
\* one of the four G-buffer input slots ends at once, having begun no render
\* pass and recorded no draw.
C9_NoPartialSubmission ==
    (/\ last.op = "run"
     /\ (~last.in.has_resolution \/ ~last.in.has_view \/ last.in.slots # Slots))
        => /\ pc = "done"
           /\ last.outcome \in {"return", "err"}
           /\ \A i \in DOMAIN last.frame.log :
                 ~IsBegin(last.frame.log[i]) /\ ~IsDraw(last.frame.log[i])

C9_Witness ==
    /\ last.op = "run" /\ last.in.has_resolution /\ last.in.has_view
    /\ last.in.slots = Slots \ {"depth"}
    /\ last.outcome = "err" /\ last.frame.log = <<>>

\* C10: wherever render_pass has run, the quad uniforms are updated, then
\* one batched quad draw and then one batched glyph draw are recorded, in a
\* row, after every command of every surface was generated, whatever the
\* order of the quad and glyph commands.
UiRan ==
    \/ last.op = "render_pass" /\ pc = "done"
    \/ last.op = "run" /\ pc = "done" /\ last.in.conn # "None"

C10_DrawsAfterGeneration ==
    UiRan =>
        LET log == last.frame.log
            u == Ev("update_uniforms", "quad")
            q == Ev("record_draw", "quad")
            g == Ev("record_draw", "glyph")
        IN  /\ Count(log, u) = 1 /\ Count(log, q) = 1 /\ Count(log, g) = 1
            /\ Idx(log, q) = Idx(log, u) + 1
            /\ Idx(log, g) = Idx(log, q) + 1
            /\ \A i \in DOMAIN log : IsGen(log[i]) => i < Idx(log, u)

C10_Witness ==
    /\ last.op = "run" /\ pc = "done"
    /\ last.frame.ui_state.kind = "InGame" /\ last.frame.ui_state.overlay = "Console"
    /\ last.in.hud_cmds = <<"glyph">> /\ last.in.overlay_cmds = <<"quad">>
    /\ Idx(last.frame.log, Ev("push_glyph", "hud"))
         < Idx(last.frame.log, Ev("push_quad", "console"))

\* C11: whenever GraphicsState's geometry or lighting pass target was
\* replaced (by a reconstruction or by GraphicsState::update), the deferred
\* and postprocess renderers are rebuilt before the next frame is encoded: in
\* every frame cycle past resource acquisition both renderers are bound to
\* the targets GraphicsState owns.
C11_RenderersFollowTargets ==
    (last.op = "run" /\ last.outcome \in {"running", "ok"})
        => /\ renderers.deferred_renderer = "bound"
           /\ renderers.postprocess_renderer = "bound"

\* C12: a frame cycle that follows a finished frame cycle with no change of
\* resolution or sample count in between constructs or rebuilds no deferred
\* renderer and no postprocess renderer.
C12_NoRebuildWithoutResize ==
    [][(phase = "running" /\ last = Blank /\ last'.op = "run")
          => /\ renderers' = renderers
             /\ \A i \in DOMAIN last'.frame.log :
                   last'.frame.log[i].ev \notin {"new", "rebuild"}]_vars

\* C13: a Validate step (ClientRenderer::update) that finds a view target
\* and a GraphicsState leaves GraphicsState's format equal to the surface's
\* format; when the two were equal before, it changes nothing: no format
\* write, no pipeline rebuild, the same GraphicsState.
C13_ValidatePostcondition ==
    [][(last'.op = "validate" /\ last'.outcome = "ok")
          => /\ gfx'.blit_format = last'.format
             /\ (gfx.blit_format = last'.format
                   => /\ gfx' = gfx
                      /\ ~last'.format_written
                      /\ last'.rebuilt = {})]_vars

C13_Witness ==
    /\ last.op = "validate" /\ last.outcome = "ok"
    /\ last.format_written /\ last.rebuilt # {}
    /\ last.format # FINAL_ATTACHMENT_FORMAT
    /\ gfx.blit_format = last.format

\* C14: after GraphicsState::update(extent, S), from any state, the three
\* pass targets report size extent, the initial and deferred targets report
\* sample count S and GraphicsState records S; a target whose size and sample
\* count were extent and S already is not replaced.
TargetOf(g, t) ==
    CASE t = "initial" -> g.initial_pass_target
      [] t = "deferred" -> g.deferred_pass_target
      [] OTHER -> g.final_pass_target

C14_UpdatePostcondition ==
    [][last'.op = "update"
          => /\ \A t \in TargetNames : TargetOf(gfx', t).size = last'.size
             /\ gfx'.initial_pass_target.sample_count = last'.sample_count
             /\ gfx'.deferred_pass_target.sample_count = last'.sample_count
             /\ gfx'.sample_count = last'.sample_count
             /\ \A t \in TargetNames :
                   (/\ TargetOf(gfx, t).size = last'.size
                    /\ TargetOf(gfx, t).sample_count = last'.sample_count)
                      => /\ t \notin last'.replaced
                         /\ TargetOf(gfx', t) = TargetOf(gfx, t)]_vars

C14_Witness ==
    /\ last.op = "update" /\ last.sample_count = 2
    /\ last.size = [width |-> 1, height |-> 1]
    /\ last.replaced = {"initial", "deferred", "final"}
    /\ gfx.sample_count = 2
    /\ gfx.deferred_pass_target = [size |-> last.size, sample_count |-> 2]

\* C15: for display extents with w, h >= 1, screen_space_vertex_translate
\* yields ((2x - w)/w, (2y - h)/h) and screen_space_vertex_scale yields
\* (2*qw/w, 2*qh/h), as exact rationals, and no integer intermediate
\* overflows; for extent (1920, 1080), origin (0, 0), size (100, 50) the
\* transform has translation (-1, -1) and scale (200/1920, 100/1080).
RatEq(r, n, d) == r.den # 0 /\ r.num * d = n * r.den

TranslateExact(r, a) ==
    /\ RatEq(r.x, 2 * a.pos_x - a.display_w, a.display_w)
    /\ RatEq(r.y, 2 * a.pos_y - a.display_h, a.display_h)

ScaleExact(r, a) ==
    /\ RatEq(r.x, 2 * a.quad_w, a.display_w)
    /\ RatEq(r.y, 2 * a.quad_h, a.display_h)

ExampleArgs ==
    [display_w |-> 1920, display_h |-> 1080, quad_w |-> 100, quad_h |-> 50,
     pos_x |-> 0, pos_y |-> 0]

C15_ScreenSpaceExact ==
    (/\ call.fn \in {"translate", "scale", "transform"} /\ call.done
     /\ call.args.display_w >= 1 /\ call.args.display_h >= 1)
        => /\ ~call.result.overflow /\ ~call.panic
           /\ call.fn = "translate" => TranslateExact(call.result, call.args)
           /\ call.fn = "scale" => ScaleExact(call.result, call.args)
           /\ call.fn = "transform"
                 => /\ TranslateExact(call.result.translation, call.args)
                    /\ ScaleExact(call.result.scale, call.args)
           /\ (call.fn = "transform" /\ call.args = ExampleArgs)
                 => /\ RatEq(call.result.translation.x, 0 - 1, 1)
                    /\ RatEq(call.result.translation.y, 0 - 1, 1)
                    /\ RatEq(call.result.scale.x, 200, 1920)
                    /\ RatEq(call.result.scale.y, 100, 1080)

C15_Witness ==
    /\ call.fn = "transform" /\ call.done /\ call.args = ExampleArgs
    /\ call.result.translation.x = [num |-> 0 - 1920, den |-> 1920]
    /\ call.result.scale.y = [num |-> 100, den |-> 1080]

\* C16: create_texture(width, height, data), zero dimensions included,
\* allocates the texture at (max(width,1), max(height,1)), writes the copy
\* region (width, height) as given, and sets bytes_per_row to width times
\* the stride: 4 for diffuse data, 1 for fullbright and lightmap data.
C16_CreateTexture ==
    (call.fn = "create_texture" /\ call.done)
        => LET a == call.args
               r == call.result
               stride == IF a.data = "Diffuse" THEN 4 ELSE 1
           IN  /\ ~call.panic /\ ~r.overflow
               /\ r.texture.width = (IF a.width = 0 THEN 1 ELSE a.width)
               /\ r.texture.height = (IF a.height = 0 THEN 1 ELSE a.height)
               /\ r.copy = [width |-> a.width, height |-> a.height]
               /\ TextureData_stride(a.data) = stride
               /\ r.bytes_per_row = a.width * stride

C16_Witness ==
    /\ call.fn = "create_texture" /\ call.done
    /\ call.args = [width |-> 0, height |-> 2, data |-> "Diffuse"]
    /\ call.result.texture.width = 1 /\ call.result.texture.height = 2
    /\ call.result.copy.width = 0 /\ call.result.bytes_per_row = 0

\* C17: wherever render_pass has run, the console renderer is handed the
\* proportion 1.0 under a Title state and 0.33 (below 1.0) under an In-Game
\* state with its HUD; it is handed a proportion exactly when the overlay is
\* the console, so the menu overlay and the HUD never get one.
C17_ConsoleProportion ==
    UiRan =>
        LET u == last.frame.ui_state
            p == last.frame.proportion
        IN  /\ (u.overlay = "Console" /\ u.kind = "Title") => p = 100
            /\ (u.overlay = "Console" /\ u.kind = "InGame")
                  => (u.hud # "None" /\ p = 33 /\ p < 100)
            /\ (u.overlay # "Console") => p = 0
            /\ (p # 0) <=> (Count(last.frame.log, Ev("generate_commands", "console")) = 1)

C17_Witness ==
    /\ last.op = "run" /\ pc = "done"
    /\ last.frame.ui_state.kind = "InGame"
    /\ last.frame.ui_state.hud = "Intermission"
    /\ last.frame.ui_state.overlay = "Console"
    /\ last.frame.proportion = 33

\* C18: every extent GraphicsState and its pass targets were constructed or
\* updated with, and the extent handed to the UI renderer, has width >= 1
\* and height >= 1.
C18_ExtentAtLeastOne ==
    /\ (\/ last.op \in {"from_world", "recreate_graphics_state"} /\ last.new_result = "Ok"
        \/ last.op = "update"
        \/ UiRan)
          => (last.size.width >= 1 /\ last.size.height >= 1)
    /\ gfx.present
          => \A t \in {gfx.initial_pass_target, gfx.deferred_pass_target,
                        gfx.final_pass_target} :
                t.size.width >= 1 /\ t.size.height >= 1

\* C19: in a finished frame cycle the frame-scoped allocator was reset once,
\* before the first render pass was begun, and the quad and glyph lists that
\* were drawn hold exactly the commands generated in this cycle, in
\* generation order: they were empty when generation started and nothing of
\* an earlier frame is in them.
Generated(log, ev) ==
    LET mine == SelectSeq(log, LAMBDA e : e.ev = ev)
    IN  [i \in 1..Len(mine) |-> mine[i].arg]

C19_FrameScratch ==
    (last.op = "run" /\ pc = "done" /\ last.outcome = "ok")
        => LET log == last.frame.log
               reset == Ev("bump_reset", "-")
           IN  /\ Count(log, reset) = 1
               /\ \A i \in DOMAIN log : IsBegin(log[i]) => Idx(log, reset) < i
               /\ \A i \in DOMAIN log : IsGen(log[i]) => Idx(log, reset) < i
               /\ last.frame.quad_commands = Generated(log, "push_quad")
               /\ last.frame.glyph_commands = Generated(log, "push_glyph")

C19_Witness ==
    /\ last.op = "run" /\ pc = "done" /\ last.outcome = "ok"
    /\ last.frame.quad_commands = <<"console">>
    /\ last.frame.glyph_commands = <<"hud">>

\* C20: once the GraphicsState resource has been removed by a failed
\* reconstruction, the renderer-rebuild system, the Validate step and the
\* frame node's run skip their work and do not panic.
C20_AbsentStateTolerated ==
    (~gfx.present /\ last.op \in {"update_renderers", "validate", "run"})
        => (last.outcome # "panic" /\ phase # "panicked")

\* C21: in every frame cycle that got past resource acquisition and has
\* ended, the deferred lighting draw and the postprocess draw are both
\* recorded (once) when a connection snapshot and a world renderer are both
\* present and neither is recorded otherwise; a postprocess draw precedes
\* every UI draw of the final pass.
C21_WorldDrawsTogether ==
    (last.op = "run" /\ last.outcome \in {"ok", "panic"} /\ last.frame.log # <<>>)
        => LET log == last.frame.log
               world == last.in.conn # "None" /\ last.in.renderer
               d == Count(log, Ev("record_draw", "deferred"))
               p == Count(log, Ev("record_draw", "postprocess"))
           IN  /\ d = p
               /\ world => d = 1
               /\ ~world => d = 0
               /\ \A i \in DOMAIN log :
                     (log[i] \in {Ev("record_draw", "quad"), Ev("record_draw", "glyph")}
                      /\ p = 1)
                        => Idx(log, Ev("record_draw", "postprocess")) < i

\* C22: an update that changes only the resolution replaces pass targets,
\* rebuilds no pipeline and leaves the recorded sample count and the
\* presentation format as they were; an update that changes the sample count
\* rebuilds the pipelines and leaves the presentation format as it was.
C22_UpdateIndependent ==
    [][last'.op = "update"
          => /\ (/\ last'.sample_count = gfx.sample_count
                 /\ last'.size # gfx.initial_pass_target.size)
                   => /\ {"initial", "deferred", "final"} \subseteq last'.replaced
                      /\ last'.rebuilt = {}
                      /\ gfx'.pipes = gfx.pipes
                      /\ gfx'.sample_count = gfx.sample_count
                      /\ gfx'.blit_format = gfx.blit_format
             /\ (last'.sample_count # gfx.sample_count)
                   => /\ last'.rebuilt = Rebuilt
                      /\ \A q \in Rebuilt : gfx'.pipes[q] = last'.sample_count
                      /\ gfx'.blit_format = gfx.blit_format]_vars

C22_Witness ==
    /\ last.op = "update" /\ last.sample_count = 1
    /\ last.replaced = TargetNames /\ last.rebuilt = {}
    /\ gfx.sample_count = 1
    /\ gfx.blit_format = "Bgra8UnormSrgb"

\* C23: wherever render_pass has run, every HUD command comes before every
\* overlay command, in the order of generation and in the quad and glyph
\* lists; at most one of the console and menu renderers has generated
\* commands; under a Title state the HUD renderer has generated none.
HudFirst(list) ==
    \A i, j \in DOMAIN list : (list[i] = "hud" /\ list[j] # "hud") => i < j

C23_GenerationOrder ==
    UiRan =>
        LET log == last.frame.log
            u == last.frame.ui_state
        IN  /\ \A i, j \in DOMAIN log :
                  (IsGen(log[i]) /\ IsGen(log[j])
                   /\ log[i].arg = "hud" /\ log[j].arg # "hud") => i < j
            /\ HudFirst(last.frame.quad_commands)
            /\ HudFirst(last.frame.glyph_commands)
            /\ Count(log, Ev("generate_commands", "console"))
                 + Count(log, Ev("generate_commands", "menu")) <= 1
            /\ u.kind = "Title"
                  => /\ Count(log, Ev("generate_commands", "hud")) = 0
                     /\ \A i \in DOMAIN log : log[i].arg # "hud"
                     /\ \A i \in DOMAIN last.frame.quad_commands :
                           last.frame.quad_commands[i] # "hud"
                     /\ \A i \in DOMAIN last.frame.glyph_commands :
                           last.frame.glyph_commands[i] # "hud"

C23_Witness ==
    /\ last.op = "run" /\ pc = "done"
    /\ last.frame.ui_state.kind = "InGame" /\ last.frame.ui_state.overlay = "Menu"
    /\ last.frame.quad_commands = <<"hud", "menu">>
    /\ Idx(last.frame.log, Ev("push_quad", "hud"))
         < Idx(last.frame.log, Ev("generate_commands", "menu"))

\* C24: whenever a GraphicsState exists, the deferred pipeline's sample
\* count is the deferred (lighting) target's, and the postprocess, quad and
\* glyph pipelines' sample count is the final target's, which is 1.
C24_PipelinesMatchTargets ==
    gfx.present
        => /\ gfx.final_pass_target.sample_count = 1
           /\ gfx.pipes["deferred"] = gfx.deferred_pass_target.sample_count
           /\ \A q \in {"postprocess", "quad", "glyph"} :
                 gfx.pipes[q] = gfx.final_pass_target.sample_count

\* C25: the map command is all-or-nothing.  If the map file (maps/<name>,
\* with .bsp when the name has no extension) or progs.dat cannot be opened or
\* loaded, it returns the error and session, connection, connection state and
\* input focus are as before; otherwise it returns Ok, an existing session is
\* Loading with the new level (a new session is inserted when there was none),
\* the connection is a server connection, the connection state is
\* SignOn(Prespawn) and the input focus is Game.
C25_MapAllOrNothing ==
    (call.fn = "cmd_map" /\ call.done)
        => LET a == call.args
               r == call.result
               ext == IF a.map_name.ext = "" THEN "bsp" ELSE a.map_name.ext
               file == <<"maps", a.map_name.stem, ext>>
               loads == /\ file \in a.vfs.files /\ a.vfs.bsp_loads
                        /\ <<"progs.dat">> \in a.vfs.files /\ a.vfs.progs_loads
           IN  /\ ~loads => (r.result = "Err" /\ r.world = a.world)
               /\ loads =>
                     /\ r.result = "Ok"
                     /\ r.world.session.present
                     /\ r.world.session.level.bsp = file
                     /\ a.world.session.present
                           => /\ r.world.session.state = "Loading"
                              /\ r.world.session.max_clients
                                   = a.world.session.max_clients
                     /\ r.world.connection = "Server"
                     /\ r.world.connection_state = "SignOn(Prespawn)"
                     /\ r.world.focus = "Game"

C25_Witness ==
    /\ call.fn = "cmd_map" /\ call.done
    /\ call.args.map_name = [stem |-> "e1m1", ext |-> ""]
    /\ call.args.world.session.present /\ call.args.world.focus = "Menu"
    /\ call.result.result = "Ok"
    /\ call.result.world.session.state = "Loading"
    /\ call.result.world.session.level.bsp = <<"maps", "e1m1", "bsp">>
    /\ call.result.world.focus = "Game"

====
